---- MODULE Spec2Model ----
(***************************************************************************)
(* Price-list aggregation (aggregate_prices.py) and search over the        *)
(* aggregated table (search_prices.py).                                    *)
(*                                                                         *)
(* Text is modelled as a sequence of one-character strings, so that        *)
(* substring search, case folding and extension matching are computed.     *)
(* A DataFrame is a record [columns, data]: the ordered column names and   *)
(* the rows, each row a function from the column names to cells.  The row  *)
(* at position i has index label i-1 (RangeIndex).                         *)
(***************************************************************************)
EXTENDS Integers, Sequences, FiniteSets, TLC

(***************************************************************************)
(* Bounds of the explored inputs.                                          *)
(***************************************************************************)
\* files in a directory listing
MaxFiles == 2
\* sheets in a directory, all files together
MaxSheets == 3
\* data rows in one sheet
MaxRows == 2

(***************************************************************************)
(* Text                                                                    *)
(***************************************************************************)
UpperChars == <<"A","B","C","D","E","F","G","H","I","J","K","L","M",
                "N","O","P","Q","R","S","T","U","V","W","X","Y","Z">>
LowerChars == <<"a","b","c","d","e","f","g","h","i","j","k","l","m",
                "n","o","p","q","r","s","t","u","v","w","x","y","z">>
DigitChars == <<"0","1","2","3","4","5","6","7","8","9">>

\* str.lower() of one character
LowerChar(c) ==
  IF \E i \in 1..Len(UpperChars) : UpperChars[i] = c
  THEN LowerChars[CHOOSE i \in 1..Len(UpperChars) : UpperChars[i] = c]
  ELSE c

Lower(s) == [i \in 1..Len(s) |-> LowerChar(s[i])]

\* str(n) of a non-negative integer
RECURSIVE IntToStr(_)
IntToStr(n) ==
  IF n < 10 THEN <<DigitChars[n + 1]>>
  ELSE IntToStr(n \div 10) \o <<DigitChars[(n % 10) + 1]>>

EndsWith(s, suffix) ==
  /\ Len(suffix) <= Len(s)
  /\ SubSeq(s, Len(s) - Len(suffix) + 1, Len(s)) = suffix

RECURSIVE Flatten(_)
Flatten(ss) == IF ss = <<>> THEN <<>> ELSE Head(ss) \o Flatten(Tail(ss))

SelectIdx(s, P(_)) ==
  LET RECURSIVE go(_)
      go(i) == IF i > Len(s) THEN <<>>
               ELSE (IF P(i) THEN <<i>> ELSE <<>>) \o go(i + 1)
  IN go(1)

\* names used in the explored directories and tables
T_xlsx == <<".","x","l","s","x">>
T_xls  == <<".","x","l","s">>
T_XLS  == <<".","X","L","S">>
N_A_xlsx == <<"A",".","x","l","s","x">>
N_b_xls  == <<"b",".","x","l","s">>
N_c_XLS  == <<"c",".","X","L","S">>
N_d_XLSX == <<"d",".","X","L","S","X">>
N_e_Xls  == <<"e",".","X","l","s">>
N_f_txt  == <<"f",".","t","x","t">>
N_an_xlsx == <<"a","n",".","x","l","s","x">>
T_Sheet1 == <<"S","h","e","e","t","1">>
T_NA     == <<"N","A">>
T_bolt == <<"b","o","l","t">>
T_Nut  == <<"N","u","t">>
T_pan  == <<"p","a","n">>
T_10   == <<"1","0">>
T_7    == <<"7">>
T_k1   == <<"k","1">>
T_nan  == <<"n","a","n">>

(***************************************************************************)
(* Cells and DataFrames                                                    *)
(***************************************************************************)
NaN == [t |-> "nan"]
StrCell(s) == [t |-> "str", s |-> s]
IntCell(n) == [t |-> "int", n |-> n]

\* pd.notna
NotNa(c) == c.t # "nan"

\* one element of Series.astype(str): a missing value becomes the text nan
AsTypeStr(c) ==
  CASE c.t = "nan" -> T_nan
    [] c.t = "int" -> IntToStr(c.n)
    [] OTHER       -> c.s

\* DataFrame.empty: some axis has length 0
DfEmpty(df) == Len(df.columns) = 0 \/ Len(df.data) = 0

InSeq(x, s) == \E i \in 1..Len(s) : s[i] = x

\* list.remove(x) guarded by "x in list": drops the first occurrence
RemoveFirst(s, x) ==
  IF ~InSeq(x, s) THEN s
  ELSE LET k == CHOOSE i \in 1..Len(s) : s[i] = x /\ \A j \in 1..(i-1) : s[j] # x
       IN SubSeq(s, 1, k - 1) \o SubSeq(s, k + 1, Len(s))

\* df[col] = value(i), i the position of the row: an existing column keeps
\* its place and is overwritten, a new column is appended
SetColumn(df, col, value(_)) ==
  LET cols == IF InSeq(col, df.columns) THEN df.columns ELSE Append(df.columns, col)
      names == {cols[k] : k \in 1..Len(cols)}
  IN [columns |-> cols,
      data |-> [i \in 1..Len(df.data) |->
                  [c \in names |-> IF c = col THEN value(i) ELSE df.data[i][c]]]]

\* union of the column indexes, sort=False: order of first appearance
RECURSIVE UnionColumns(_, _)
UnionColumns(frames, acc) ==
  IF frames = <<>> THEN acc
  ELSE LET cs == Head(frames).columns
           new == SelectIdx(cs, LAMBDA k : ~InSeq(cs[k], acc))
       IN UnionColumns(Tail(frames), acc \o [k \in 1..Len(new) |-> cs[new[k]]])

\* pd.concat(frames, ignore_index=True, sort=False)
Concat(frames) ==
  LET cols == UnionColumns(frames, <<>>)
      names == {cols[k] : k \in 1..Len(cols)}
      widen(df) == [i \in 1..Len(df.data) |->
                      [c \in names |-> IF c \in DOMAIN df.data[i]
                                       THEN df.data[i][c] ELSE NaN]]
  IN [columns |-> cols,
      data |-> Flatten([k \in 1..Len(frames) |-> widen(frames[k])])]

\* df[final_cols]
SelectColumns(df, final_cols) ==
  LET names == {final_cols[k] : k \in 1..Len(final_cols)}
  IN [columns |-> final_cols,
      data |-> [i \in 1..Len(df.data) |-> [c \in names |-> df.data[i][c]]]]

source_cols == <<"source_file", "sheet_name", "row_number">>

(***************************************************************************)
(* Explored inputs: the price directory as os.listdir reports it.  A file  *)
(* is [name, opens, sheets]: whether pd.ExcelFile(f) succeeds and the      *)
(* sheets it then names; a sheet is [name, ok, df]: whether pd.read_excel  *)
(* succeeds and the table it then returns (header row = columns).          *)
(***************************************************************************)
\* the cell read_excel returns for data row i of a sheet laid out as l
RowCell(l, col, i) ==
  CASE l = "L1" /\ col = "item"  ->
         StrCell(<<T_bolt, T_Nut, T_pan>>[((i - 1) % 3) + 1])
    [] l = "L1" /\ col = "price" -> IF i % 2 = 1 THEN StrCell(T_10) ELSE NaN
    [] l = "L2" /\ col = "price" -> IF i % 2 = 1 THEN StrCell(T_7) ELSE NaN
    [] l = "L2" /\ col = "code"  -> IF i % 2 = 1 THEN NaN ELSE StrCell(T_k1)
    [] l = "L2" /\ col = "item"  -> IF i % 2 = 1 THEN StrCell(T_pan) ELSE StrCell(T_bolt)
    [] l = "L3" /\ col = "code"  -> StrCell(T_k1)
    [] OTHER                     -> StrCell(T_pan)

LayoutColumns(l) ==
  CASE l = "L1" -> <<"item", "price">>
    [] l = "L2" -> <<"price", "code", "item">>
    [] OTHER    -> <<"code", "source_file">>

SheetTable(l, n) ==
  [columns |-> LayoutColumns(l),
   data |-> [i \in 1..n |->
               [c \in {LayoutColumns(l)[k] : k \in 1..Len(LayoutColumns(l))} |->
                  RowCell(l, c, i)]]]

NoTable == [columns |-> <<>>, data |-> <<>>]

\* the name of the j-th sheet of a workbook
SheetNameAt(j) ==
  CASE j = 1 -> T_Sheet1
    [] j = 2 -> T_NA
    [] OTHER -> <<"S">> \o IntToStr(j)

\* the name of the file at position p of a listing with fixed names
SlotName(p) ==
  CASE p = 1 -> N_A_xlsx
    [] p = 2 -> N_b_xls
    [] p = 3 -> N_c_XLS
    [] OTHER -> IntToStr(p) \o T_xlsx

MkSheet(j, ch) ==
  [name |-> SheetNameAt(j), ok |-> ch.ok,
   df |-> IF ch.ok THEN SheetTable(ch.layout, ch.n) ELSE NoTable]

FailChoice == [ok |-> FALSE, layout |-> "L1", n |-> 0]

\* outcomes of one sheet: fails to parse, or layout L1 with no, one or
\* MaxRows data rows
ContentChoices ==
  {FailChoice} \cup {[ok |-> TRUE, layout |-> "L1", n |-> n] : n \in {0, 1, MaxRows}}

\* outcomes of one sheet: one of the layouts, header only or MaxRows rows
LayoutChoices ==
  {[ok |-> TRUE, layout |-> l, n |-> n] : l \in {"L1", "L2", "L3"}, n \in {0, MaxRows}}

\* the files named nm with k sheets; a file without sheets is one that
\* pd.ExcelFile cannot open
FilesWith(nm, k, choices) ==
  IF k = 0 THEN {[name |-> nm, opens |-> FALSE, sheets |-> <<>>]}
  ELSE {[name |-> nm, opens |-> TRUE,
         sheets |-> [j \in 1..k |-> MkSheet(j, c[j])]] : c \in [1..k -> choices]}

\* listings of files at positions p.., with at most budget sheets in all
RECURSIVE DirsFrom(_, _, _)
DirsFrom(p, budget, choices) ==
  IF p > MaxFiles THEN {<<>>}
  ELSE {<<>>} \cup
       UNION {{<<f>> \o d : f \in FilesWith(SlotName(p), k, choices),
                            d \in DirsFrom(p + 1, budget - k, choices)}
              : k \in 0..budget}

ContentDirs == DirsFrom(1, MaxSheets, ContentChoices)

LayoutDirs ==
  UNION {{<<f>> : f \in FilesWith(N_A_xlsx, k, LayoutChoices)} : k \in 1..MaxSheets}

FileNames == {N_A_xlsx, N_b_xls, N_c_XLS, N_d_XLSX, N_e_Xls, N_f_txt, N_an_xlsx}

OneRowFile(nm) ==
  [name |-> nm, opens |-> TRUE,
   sheets |-> <<MkSheet(1, [ok |-> TRUE, layout |-> "L1", n |-> 1])>>]

\* listings of up to MaxFiles distinct names, each a one-sheet workbook
NameDirs ==
  UNION {{[i \in 1..n |-> OneRowFile(f[i])] :
            f \in {g \in [1..n -> FileNames] :
                     \A i, j \in 1..n : i # j => g[i] # g[j]}}
         : n \in 1..MaxFiles}

\* a table left at the output path by an earlier run
OldTable ==
  [columns |-> source_cols \o <<"item">>,
   data |-> <<[c \in {"source_file", "sheet_name", "row_number", "item"} |->
                 CASE c = "source_file" -> StrCell(N_b_xls)
                   [] c = "sheet_name"  -> StrCell(T_Sheet1)
                   [] c = "row_number"  -> IntCell(2)
                   [] OTHER             -> StrCell(T_Nut)]>>]

Absent == [kind |-> "absent"]
Corrupt == [kind |-> "corrupt"]
TableFile(df) == [kind |-> "table", table |-> df]

OutFiles == {Absent, Corrupt, TableFile(OldTable)}

(***************************************************************************)
(* aggregate_prices.py                                                     *)
(***************************************************************************)
VARIABLES
  platform_nt,    \* os.path is ntpath (Windows) rather than posixpath
  dirExists,      \* os.path.isdir(PRICE_DIR)
  listing,        \* the files of the price directory, in listing order
  priorFile,      \* what was at the output path before the run
  outFile,        \* what is at the output path
  pc,             \* position of the aggregator run
  all_files,      \* paths found by the glob patterns
  fi,             \* position of the file loop in all_files
  si,             \* position of the sheet loop in xls.sheet_names
  all_data,       \* tagged DataFrames collected so far
  aggregated_df,  \* the combined table
  aggOutcome,     \* how the aggregator run ended
  stdout,         \* lines printed by the aggregator
  query,          \* sys.argv[1] of the last search
  searchOutcome,  \* how the last search ended
  results_df,     \* rows selected by the last search
  final_display_cols, \* columns the last search displays
  printed         \* match blocks printed by the last search

aggVars == <<pc, all_files, fi, si, all_data, aggregated_df, aggOutcome, stdout, outFile>>
searchVars == <<query, searchOutcome, results_df, final_display_cols, printed>>
inputVars == <<platform_nt, dirExists, listing, priorFile>>
vars == <<platform_nt, dirExists, listing, priorFile, outFile, pc, all_files, fi, si,
          all_data, aggregated_df, aggOutcome, stdout, query, searchOutcome,
          results_df, final_display_cols, printed>>

PRICE_DIR == <<"P">>

Sep(nt) == IF nt THEN "\\" ELSE "/"

\* os.path.join(price_dir, name)
PathJoin(dir, name, nt) == dir \o <<Sep(nt)>> \o name

\* os.path.basename: the part after the last separator
Basename(path, nt) ==
  LET seps == IF nt THEN {"/", "\\"} ELSE {"/"}
      cut == {i \in 1..Len(path) : path[i] \in seps}
      last == IF cut = {} THEN 0 ELSE CHOOSE i \in cut : \A j \in cut : j <= i
  IN SubSeq(path, last + 1, Len(path))

\* os.path.normcase: lower-cases on Windows, identity on posix
NormCase(s, nt) == IF nt THEN Lower(s) ELSE s

\* fnmatch of a name against a pattern "*" + suffix: both are case-normalised
FnMatch(name, pat, nt) ==
  /\ Len(name) > 0
  /\ name[1] # "."
  /\ EndsWith(NormCase(name, nt), NormCase(Tail(pat), nt))

\* the three basename patterns of file_patterns
file_patterns == << <<"*">> \o T_xlsx, <<"*">> \o T_xls, <<"*">> \o T_XLS >>

\* glob.glob(os.path.join(price_dir, pat)): the matching names in listing order
Glob(dir, pat, nt) ==
  LET hit == SelectIdx(dir, LAMBDA k : FnMatch(dir[k].name, pat, nt))
  IN [k \in 1..Len(hit) |-> PathJoin(PRICE_DIR, dir[hit[k]].name, nt)]

\* all_files after the loop over file_patterns
DiscoverFiles(dir, nt) ==
  Flatten([k \in 1..Len(file_patterns) |-> Glob(dir, file_patterns[k], nt)])

\* the file a path names
FileAt(path) ==
  LET k == CHOOSE k \in 1..Len(listing) :
             PathJoin(PRICE_DIR, listing[k].name, platform_nt) = path
  IN listing[k]

\* a numbering that forgets the header row
RowNumber_NoHeader(i) == (i - 1) + 1

\* df.index + 2 for the row at position i (index label i - 1)
RowNumber(i) == (i - 1) + 2

\* the three provenance assignments
TagSheet(df, path, sheet_name, nt) ==
  LET a == SetColumn(df, "source_file", LAMBDA i : StrCell(Basename(path, nt)))
      b == SetColumn(a, "sheet_name", LAMBDA i : StrCell(sheet_name))
  IN SetColumn(b, "row_number", LAMBDA i : IntCell(RowNumber(i)))

\* all_data after one sheet was read without an exception
CollectSheet(data, df, path, sheet_name, nt) ==
  IF DfEmpty(df) THEN data ELSE Append(data, TagSheet(df, path, sheet_name, nt))

\* a sheet loop whose exception leaves the file
AfterSheet_AbortFile(f, s, n, failed) ==
  IF s < n /\ ~failed THEN [pc |-> "sheet", fi |-> f, si |-> s + 1]
  ELSE [pc |-> "file", fi |-> f + 1, si |-> 0]

\* where the loops stand after sheet s of n was handled, with or without
\* an exception: the next sheet, or the next file after the last sheet
AfterSheet(f, s, n, failed) ==
  IF s < n THEN [pc |-> "sheet", fi |-> f, si |-> s + 1]
  ELSE [pc |-> "file", fi |-> f + 1, si |-> 0]

\* where the loops stand after pd.ExcelFile(f) raised
AfterFileError(f) == [pc |-> "file", fi |-> f + 1, si |-> 0]

\* columns left where the concatenation put them
FinalCols_KeepPlace(cols) == cols

\* cols with the source columns removed, source columns put first
FinalCols(cols) ==
  source_cols \o
  RemoveFirst(RemoveFirst(RemoveFirst(cols, "source_file"), "sheet_name"), "row_number")

\* concatenation and column reordering
Combine(data) ==
  LET cat == Concat(data)
  IN SelectColumns(cat, FinalCols(cat.columns))

\* a run that writes whatever was collected
HasData_Always(data) == TRUE

\* whether the run goes on to combine and write
HasData(data) == data # <<>>

Init ==
  /\ \/ /\ dirExists = FALSE
        /\ listing = <<>>
        /\ priorFile \in OutFiles
        /\ platform_nt \in BOOLEAN
     \/ /\ dirExists = TRUE
        /\ listing \in ContentDirs
        /\ priorFile = TableFile(OldTable)
        /\ platform_nt = FALSE
     \/ /\ dirExists = TRUE
        /\ listing \in LayoutDirs
        /\ priorFile = Absent
        /\ platform_nt = FALSE
     \/ /\ dirExists = TRUE
        /\ listing \in NameDirs
        /\ priorFile \in OutFiles
        /\ platform_nt \in BOOLEAN
  /\ outFile = priorFile
  /\ pc = "main"
  /\ all_files = <<>>
  /\ fi = 0
  /\ si = 0
  /\ all_data = <<>>
  /\ aggregated_df = NoTable
  /\ aggOutcome = "running"
  /\ stdout = <<>>
  /\ query = <<>>
  /\ searchOutcome = "none"
  /\ results_df = <<>>
  /\ final_display_cols = <<>>
  /\ printed = <<>>

\* __main__: the price directory does not exist
AggNoDir ==
  /\ pc = "main"
  /\ ~dirExists
  /\ pc' = "done"
  /\ aggOutcome' = "exit1_nodir"
  /\ stdout' = Append(stdout, [m |-> "no_dir"])
  /\ UNCHANGED <<all_files, fi, si, all_data, aggregated_df, outFile>>
  /\ UNCHANGED inputVars /\ UNCHANGED searchVars

\* aggregate_price_lists up to the file loop
Discover ==
  /\ pc = "main"
  /\ dirExists
  /\ LET found == DiscoverFiles(listing, platform_nt) IN
       /\ all_files' = found
       /\ IF found = <<>>
          THEN /\ pc' = "done"
               /\ aggOutcome' = "nofiles"
               /\ fi' = fi
               /\ stdout' = Append(stdout, [m |-> "no_files"])
          ELSE /\ pc' = "file"
               /\ aggOutcome' = aggOutcome
               /\ fi' = 1
               /\ stdout' = Append(stdout, [m |-> "found", n |-> Len(found)])
  /\ UNCHANGED <<si, all_data, aggregated_df, outFile>>
  /\ UNCHANGED inputVars /\ UNCHANGED searchVars

\* one iteration of the file loop up to the sheet loop
OpenFile ==
  /\ pc = "file"
  /\ fi <= Len(all_files)
  /\ LET path == all_files[fi]
         f == FileAt(path)
         base == Basename(path, platform_nt)
         line == [m |-> "processing", f |-> base]
     IN IF ~f.opens
        THEN LET nx == AfterFileError(fi) IN
             /\ stdout' = stdout \o <<line, [m |-> "file_error", f |-> base]>>
             /\ pc' = nx.pc /\ fi' = nx.fi /\ si' = nx.si
        ELSE /\ stdout' = Append(stdout, line)
             /\ IF Len(f.sheets) = 0
                THEN pc' = "file" /\ fi' = fi + 1 /\ si' = 0
                ELSE pc' = "sheet" /\ fi' = fi /\ si' = 1
  /\ UNCHANGED <<all_files, all_data, aggregated_df, aggOutcome, outFile>>
  /\ UNCHANGED inputVars /\ UNCHANGED searchVars

\* one iteration of the sheet loop
ReadSheet ==
  /\ pc = "sheet"
  /\ LET path == all_files[fi]
         f == FileAt(path)
         sh == f.sheets[si]
         nx == AfterSheet(fi, si, Len(f.sheets), ~sh.ok)
         line == [m |-> "reading", s |-> sh.name]
     IN /\ IF ~sh.ok
           THEN /\ stdout' = stdout \o <<line, [m |-> "sheet_error", s |-> sh.name]>>
                /\ all_data' = all_data
           ELSE /\ stdout' = IF DfEmpty(sh.df)
                             THEN stdout \o <<line, [m |-> "sheet_empty"]>>
                             ELSE Append(stdout, line)
                /\ all_data' = CollectSheet(all_data, sh.df, path, sh.name, platform_nt)
        /\ pc' = nx.pc /\ fi' = nx.fi /\ si' = nx.si
  /\ UNCHANGED <<all_files, aggregated_df, aggOutcome, outFile>>
  /\ UNCHANGED inputVars /\ UNCHANGED searchVars

\* after the file loop: nothing was collected
NoData ==
  /\ pc = "file"
  /\ fi > Len(all_files)
  /\ ~HasData(all_data)
  /\ pc' = "done"
  /\ aggOutcome' = "nodata"
  /\ stdout' = Append(stdout, [m |-> "no_data"])
  /\ UNCHANGED <<all_files, fi, si, all_data, aggregated_df, outFile>>
  /\ UNCHANGED inputVars /\ UNCHANGED searchVars

\* after the file loop: concatenate and reorder the columns
CombineAll ==
  /\ pc = "file"
  /\ fi > Len(all_files)
  /\ HasData(all_data)
  /\ aggregated_df' = Combine(all_data)
  /\ pc' = "write"
  /\ stdout' = stdout \o <<[m |-> "combining"], [m |-> "writing"]>>
  /\ UNCHANGED <<all_files, fi, si, all_data, aggOutcome, outFile>>
  /\ UNCHANGED inputVars /\ UNCHANGED searchVars

\* to_excel succeeds: the file at the output path is replaced
WriteOk ==
  /\ pc = "write"
  /\ outFile' = TableFile(aggregated_df)
  /\ pc' = "done"
  /\ aggOutcome' = "written"
  /\ stdout' = stdout \o <<[m |-> "complete"], [m |-> "rows", n |-> Len(aggregated_df.data)]>>
  /\ UNCHANGED <<all_files, fi, si, all_data, aggregated_df>>
  /\ UNCHANGED inputVars /\ UNCHANGED searchVars

\* to_excel raises (the output path cannot be written)
WriteFail ==
  /\ pc = "write"
  /\ pc' = "done"
  /\ aggOutcome' = "write_failed"
  /\ stdout' = Append(stdout, [m |-> "write_error"])
  /\ UNCHANGED <<all_files, fi, si, all_data, aggregated_df, outFile>>
  /\ UNCHANGED inputVars /\ UNCHANGED searchVars

AggNext ==
  \/ AggNoDir
  \/ Discover
  \/ OpenFile
  \/ ReadSheet
  \/ NoData
  \/ CombineAll
  \/ WriteOk
  \/ WriteFail

(***************************************************************************)
(* search_prices.py                                                        *)
(***************************************************************************)
\* strings read_excel turns into a missing value (keep_default_na)
NaStrings == {<<>>, T_NA, T_nan, <<"N","a","N">>, <<"n","u","l","l">>,
              <<"N","U","L","L">>, <<"N","o","n","e">>, <<"N","/","A">>,
              <<"n","/","a">>, <<"#","N","/","A">>}

ReadCell(c) == IF c.t = "str" /\ c.s \in NaStrings THEN NaN ELSE c

\* pd.read_excel of a table written by to_excel(index=False)
ReadExcel(df) ==
  [columns |-> df.columns,
   data |-> [i \in 1..Len(df.data) |->
               [c \in DOMAIN df.data[i] |-> ReadCell(df.data[i][c])]]]

\* re.compile raises on a pattern with an unclosed group
PatternError(pat) == \E i \in 1..Len(pat) : pat[i] = "("

\* the pattern matches text at offset k, ignoring case; "." is any character
MatchAt(pat, text, k) ==
  \A j \in 1..Len(pat) :
    \/ pat[j] = "."
    \/ LowerChar(pat[j]) = LowerChar(text[k + j])

\* re.search(pat, text, re.IGNORECASE) for patterns of literals and "."
ReSearch(pat, text) ==
  \E k \in 0..(Len(text) - Len(pat)) : MatchAt(pat, text, k)

\* one element of col.astype(str).str.contains(query, case=False, na=False)
CellContains(q, c) == ReSearch(q, AsTypeStr(c))

\* mask.any(axis=1) for one row
RowMatches(q, df, row) ==
  \E k \in 1..Len(df.columns) : CellContains(q, row[df.columns[k]])

\* df[mask.any(axis=1)]
Results(q, df) ==
  LET hit == SelectIdx(df.data, LAMBDA i : RowMatches(q, df, df.data[i]))
  IN [k \in 1..Len(hit) |-> df.data[hit[k]]]

SortedNames == <<"code", "item", "price", "row_number", "sheet_name", "source_file">>

\* sorted(list(names)) for names among the column names of the tables
SortedList(names) ==
  LET idx == SelectIdx(SortedNames, LAMBDA k : SortedNames[k] \in names)
  IN [k \in 1..Len(idx) |-> SortedNames[idx[k]]]

\* every column displayed
MatchColumns_All(q, columns, rows) == {columns[k] : k \in 1..Len(columns)}

\* columns of the results in which some cell contains the query
MatchColumns(q, columns, rows) ==
  {columns[k] : k \in
     {k \in 1..Len(columns) :
        \E i \in 1..Len(rows) : CellContains(q, rows[i][columns[k]])}}

\* source columns first, then the other displayed columns sorted by name
FinalDisplayCols(q, columns, rows) ==
  LET display_cols == {source_cols[k] : k \in 1..Len(source_cols)}
                        \cup MatchColumns(q, columns, rows)
  IN source_cols \o
     SortedList(display_cols \ {source_cols[k] : k \in 1..Len(source_cols)})

\* the detail lines of one row: the displayed columns that are not source
\* columns and whose value is not null
DetailLines(cols, row) ==
  LET idx == SelectIdx(cols, LAMBDA k : ~InSeq(cols[k], source_cols)
                                        /\ NotNa(row[cols[k]]))
  IN [k \in 1..Len(idx) |-> <<cols[idx[k]], AsTypeStr(row[cols[idx[k]]])>>]

\* the block printed for one row
MatchBlock(cols, row) ==
  [file |-> AsTypeStr(row["source_file"]),
   sheet |-> AsTypeStr(row["sheet_name"]),
   row |-> AsTypeStr(row["row_number"]),
   details |-> DetailLines(cols, row)]

Queries == {T_bolt, <<"B","O","L","T">>, <<"a","n">>, <<".">>, <<"(">>}

\* __main__ without a query argument
SearchNoArg ==
  /\ pc = "done"
  /\ searchOutcome = "none"
  /\ query' = <<>>
  /\ searchOutcome' = "exit1_usage"
  /\ results_df' = <<>>
  /\ final_display_cols' = <<>>
  /\ printed' = <<>>
  /\ UNCHANGED aggVars /\ UNCHANGED inputVars

\* search_price_list: the aggregated file does not exist
SearchMissing(q) ==
  /\ pc = "done"
  /\ searchOutcome = "none"
  /\ outFile.kind = "absent"
  /\ query' = q
  /\ searchOutcome' = "exit1_missing"
  /\ results_df' = <<>>
  /\ final_display_cols' = <<>>
  /\ printed' = <<>>
  /\ UNCHANGED aggVars /\ UNCHANGED inputVars

\* search_price_list: read_excel raises
SearchUnreadable(q) ==
  /\ pc = "done"
  /\ searchOutcome = "none"
  /\ outFile.kind = "corrupt"
  /\ query' = q
  /\ searchOutcome' = "exit1_unreadable"
  /\ results_df' = <<>>
  /\ final_display_cols' = <<>>
  /\ printed' = <<>>
  /\ UNCHANGED aggVars /\ UNCHANGED inputVars

\* search_price_list on a readable table
SearchTable(q) ==
  /\ pc = "done"
  /\ searchOutcome = "none"
  /\ outFile.kind = "table"
  /\ query' = q
  /\ IF PatternError(q)
     THEN /\ searchOutcome' = "unhandled_exception"
          /\ results_df' = <<>>
          /\ final_display_cols' = <<>>
          /\ printed' = <<>>
     ELSE /\ results_df' = Results(q, ReadExcel(outFile.table))
          /\ searchOutcome' = IF results_df' = <<>> THEN "no_results" ELSE "found"
          /\ final_display_cols' =
               IF results_df' = <<>> THEN <<>>
               ELSE FinalDisplayCols(q, ReadExcel(outFile.table).columns, results_df')
          /\ printed' = [k \in 1..Len(results_df') |->
                           MatchBlock(final_display_cols', results_df'[k])]
  /\ UNCHANGED aggVars /\ UNCHANGED inputVars

SearchNext ==
  \/ SearchNoArg
  \/ \E q \in Queries : SearchMissing(q)
  \/ \E q \in Queries : SearchUnreadable(q)
  \/ \E q \in Queries : SearchTable(q)

Next == AggNext \/ SearchNext

Spec == Init /\ [][Next]_vars

(***************************************************************************)
(* What the directory holds, computed from the listing alone               *)
(***************************************************************************)
SourceNames == {source_cols[k] : k \in 1..Len(source_cols)}

\* s without repeated elements, first occurrences kept
RECURSIVE Dedup(_)
Dedup(s) ==
  IF s = <<>> THEN <<>>
  ELSE LET r == Dedup(SubSeq(s, 1, Len(s) - 1))
       IN IF InSeq(s[Len(s)], r) THEN r ELSE Append(r, s[Len(s)])

Count(s, x) == Cardinality({i \in 1..Len(s) : s[i] = x})

\* the sheets a run over paths reads without an exception: [path, sheet]
ReadSheets(paths) ==
  Flatten([k \in 1..Len(paths) |->
    LET f == FileAt(paths[k])
        okIdx == IF f.opens THEN SelectIdx(f.sheets, LAMBDA j : f.sheets[j].ok)
                 ELSE <<>>
    IN [j \in 1..Len(okIdx) |-> [path |-> paths[k], sheet |-> f.sheets[okIdx[j]]]]])

\* the data rows of those sheets: [path, sheet, i], i the position in the sheet
SourceRows(paths) ==
  LET rs == ReadSheets(paths)
  IN Flatten([k \in 1..Len(rs) |->
       [i \in 1..Len(rs[k].sheet.df.data) |->
          [path |-> rs[k].path, sheet |-> rs[k].sheet, i |-> i]]])

\* the lines "Processing file" and "Reading sheet" of a complete run
ExpectedUnits ==
  Flatten([k \in 1..Len(all_files) |->
    LET f == FileAt(all_files[k])
    IN <<[m |-> "processing", f |-> f.name]>> \o
       (IF f.opens THEN [j \in 1..Len(f.sheets) |-> [m |-> "reading", s |-> f.sheets[j].name]]
        ELSE <<>>)])

PrintedUnits ==
  LET idx == SelectIdx(stdout, LAMBDA k : stdout[k].m \in {"processing", "reading"})
  IN [k \in 1..Len(idx) |-> stdout[idx[k]]]

\* the payload of a row: its cells outside the source columns
Payload(row) == [c \in (DOMAIN row) \ SourceNames |-> row[c]]

\* text contains q as a literal substring, ignoring case
LiteralContains(q, text) ==
  \E k \in 0..(Len(text) - Len(q)) :
    \A j \in 1..Len(q) : LowerChar(q[j]) = LowerChar(text[k + j])

\* a file name with a spreadsheet extension in any letter-casing
IsSpreadsheetName(name) ==
  EndsWith(Lower(name), T_xlsx) \/ EndsWith(Lower(name), T_xls)

(***************************************************************************)
(* Claims                                                                  *)
(***************************************************************************)
\* C1: a written table has exactly as many rows as the successfully read
\* sheets of the directory's files have data rows, none dropped or duplicated.
C1_RowCountIsSum ==
  aggOutcome = "written" =>
    Len(outFile.table.data) = Len(SourceRows(Dedup(all_files)))

\* C2: a sheet that fails does not stop the later sheets of its file nor the
\* later files, a file that fails to open does not stop the later files, the
\* rows collected from the other units are kept, and the run ends at the
\* write step or at the "no data" exit.
C2_FailureContained ==
  (pc = "done" /\ all_files # <<>>) =>
    /\ PrintedUnits = ExpectedUnits
    /\ LET src == SourceRows(all_files)
       IN Flatten([k \in 1..Len(all_data) |->
                     [i \in 1..Len(all_data[k].data) |-> Payload(all_data[k].data[i])]])
            = [k \in 1..Len(src) |-> Payload(src[k].sheet.df.data[src[k].i])]
    /\ aggOutcome \in {"written", "write_failed", "nodata"}

\* a run that wrote a table although a sheet failed before a later sheet of
\* the same file and before a later file
C2_Witness ==
  /\ aggOutcome = "written"
  /\ Len(all_data) >= 2
  /\ \E i, j, k \in 1..Len(stdout) :
       /\ i < j /\ j < k
       /\ stdout[i].m = "sheet_error"
       /\ stdout[j].m = "reading"
       /\ stdout[k].m = "processing"
       /\ \A x \in i..j : stdout[x].m # "processing"

\* C6: every row of the aggregated table has non-null provenance and the
\* row_number of the i-th data row of a sheet is i + 1, for every sheet anew.
C6_RowNumbers ==
  aggOutcome = "written" =>
    LET src == SourceRows(all_files)
        t == outFile.table
    IN /\ Len(t.data) = Len(src)
       /\ \A k \in 1..Len(t.data) :
            /\ NotNa(t.data[k]["source_file"])
            /\ NotNa(t.data[k]["sheet_name"])
            /\ t.data[k]["row_number"] = IntCell(src[k].i + 1)
            /\ t.data[k]["sheet_name"] = StrCell(src[k].sheet.name)
            /\ t.data[k]["source_file"] = StrCell(FileAt(src[k].path).name)

\* a written table with rows of two sheets, each numbered from 2
C6_Witness ==
  /\ aggOutcome = "written"
  /\ \E a, b \in 1..Len(outFile.table.data) :
       /\ a < b
       /\ outFile.table.data[a]["row_number"] = IntCell(3)
       /\ outFile.table.data[b]["row_number"] = IntCell(3)
       /\ outFile.table.data[b - 1]["row_number"] = IntCell(2)

\* C7: the output path is written only when a data row was extracted; a run
\* that finds no file or extracts no row leaves the output path as it was.
C7_NoWriteWithoutData ==
  /\ aggOutcome \in {"nofiles", "nodata"} => outFile = priorFile
  /\ (pc = "done" /\ dirExists /\ SourceRows(all_files) = <<>>) =>
       aggOutcome \in {"nofiles", "nodata"}
  /\ outFile # priorFile =>
       aggOutcome = "written" /\ Len(outFile.table.data) >= 1

\* a run over files without any data row, with a table already at the path
C7_Witness ==
  /\ aggOutcome = "nodata"
  /\ Len(all_files) >= 2
  /\ outFile = TableFile(OldTable)

\* C8: every file with the extension xlsx or xls in any letter-casing is
\* enumerated exactly once.
C8_DiscoversEachOnce ==
  (pc # "main" /\ dirExists) =>
    \A k \in 1..Len(listing) :
      IsSpreadsheetName(listing[k].name) =>
        Count(all_files, PathJoin(PRICE_DIR, listing[k].name, platform_nt)) = 1

\* C9: neither script ends through an unhandled exception.
C9_NoUnhandledException ==
  /\ aggOutcome # "unhandled_exception"
  /\ searchOutcome # "unhandled_exception"

\* C3: the search returns a row exactly when one of its non-null cells, as
\* text, contains the query as a literal substring, ignoring case.
C3_LiteralMatchRule ==
  searchOutcome \in {"found", "no_results"} =>
    LET df == ReadExcel(outFile.table)
        hit == SelectIdx(df.data, LAMBDA i :
                 \E c \in DOMAIN df.data[i] :
                   /\ NotNa(df.data[i][c])
                   /\ LiteralContains(query, AsTypeStr(df.data[i][c])))
    IN results_df = [k \in 1..Len(hit) |-> df.data[hit[k]]]

\* the data cells of the read sheets that contain q: [k, col], k the
\* position of the row in SourceRows
SourceCellsWith(q) ==
  LET src == SourceRows(Dedup(all_files))
  IN {x \in [k : 1..Len(src), col : {"item", "price", "code", "source_file"}] :
        LET row == src[x.k].sheet.df.data[src[x.k].i]
        IN /\ x.col \in DOMAIN row
           /\ NotNa(row[x.col])
           /\ LiteralContains(q, AsTypeStr(row[x.col]))}

\* C4: after aggregation, a search for a string that occurs in exactly one
\* cell of one source file prints exactly one block, naming that file, sheet
\* and row.
C4_RoundTrip ==
  (aggOutcome = "written" /\ searchOutcome # "none" /\ query # <<>>
     /\ Cardinality(SourceCellsWith(query)) = 1) =>
    LET x == CHOOSE x \in SourceCellsWith(query) : TRUE
        r == SourceRows(Dedup(all_files))[x.k]
    IN /\ searchOutcome = "found"
       /\ Len(printed) = 1
       /\ printed[1].file = FileAt(r.path).name
       /\ printed[1].sheet = r.sheet.name
       /\ printed[1].row = IntToStr(r.i + 1)

\* the payload column names of the given sheets in order of first appearance
FirstSeenColumns(sheets) ==
  LET all == Dedup(Flatten([k \in 1..Len(sheets) |-> sheets[k].sheet.df.columns]))
      idx == SelectIdx(all, LAMBDA k : all[k] \notin SourceNames)
  IN [k \in 1..Len(idx) |-> all[idx[k]]]

NonEmptySheets(sheets) ==
  LET idx == SelectIdx(sheets, LAMBDA k : ~DfEmpty(sheets[k].sheet.df))
  IN [k \in 1..Len(idx) |-> sheets[idx[k]]]

\* a cell of a written row is the cell of its source row, or null where the
\* source sheet has no such column
CellsAligned ==
  LET src == SourceRows(all_files)
      t == outFile.table
  IN /\ Len(t.data) = Len(src)
     /\ \A k \in 1..Len(t.data) :
          /\ DOMAIN t.data[k] = {t.columns[j] : j \in 1..Len(t.columns)}
          /\ \A c \in (DOMAIN t.data[k]) \ SourceNames :
               LET row == src[k].sheet.df.data[src[k].i]
               IN t.data[k][c] = IF c \in DOMAIN row THEN row[c] ELSE NaN

\* C5 as stated: the columns of a written table are the three source columns
\* followed by the other column names of all successfully read sheets in
\* order of first appearance, and a column a sheet lacks is null in its rows.
C5_ColumnsOfAllReadSheets ==
  aggOutcome = "written" =>
    /\ outFile.table.columns = source_cols \o FirstSeenColumns(ReadSheets(all_files))
    /\ CellsAligned

\* C5 amended: as above, over the successfully read sheets that have at
\* least one data row.
C5_ColumnsOfNonEmptySheets ==
  aggOutcome = "written" =>
    /\ outFile.table.columns =
         source_cols \o FirstSeenColumns(NonEmptySheets(ReadSheets(all_files)))
    /\ CellsAligned

\* a written table whose later sheet brought a new column and changed the
\* input column order, so that rows of the first sheet are null in it
C5_Witness ==
  /\ aggOutcome = "written"
  /\ outFile.table.columns = source_cols \o <<"item", "price", "code">>
  /\ \E k \in 1..Len(outFile.table.data) : outFile.table.data[k]["code"] = NaN
  /\ \E k \in 1..Len(outFile.table.data) : outFile.table.data[k]["code"] # NaN

\* the table of the scenario: one row of A.xlsx, Sheet1
ScenarioTable ==
  [columns |-> <<"source_file", "sheet_name", "row_number", "item", "price">>,
   data |-> <<[c \in {"source_file", "sheet_name", "row_number", "item", "price"} |->
                 CASE c = "source_file" -> StrCell(N_A_xlsx)
                   [] c = "sheet_name"  -> StrCell(T_Sheet1)
                   [] c = "row_number"  -> IntCell(2)
                   [] c = "item"        -> StrCell(T_bolt)
                   [] OTHER             -> StrCell(T_10)]>>]

ScenarioSearched ==
  /\ outFile = TableFile(ScenarioTable)
  /\ query = T_bolt
  /\ searchOutcome # "none"

\* C10 as stated: the search for bolt prints the row with the detail lines
\* item: bolt and price: 10 and no detail line for a source column.
C10_ItemAndPriceLines ==
  ScenarioSearched =>
    /\ Len(printed) = 1
    /\ \E k \in 1..Len(printed[1].details) : printed[1].details[k] = <<"item", T_bolt>>
    /\ \E k \in 1..Len(printed[1].details) : printed[1].details[k] = <<"price", T_10>>
    /\ \A k \in 1..Len(printed[1].details) : printed[1].details[k][1] \notin SourceNames

\* C10 amended: the search for bolt prints the row, naming A.xlsx, Sheet1 and
\* row 2 in the header line, with the one detail line item: bolt.
C10_ItemLineOnly ==
  ScenarioSearched =>
    /\ searchOutcome = "found"
    /\ Len(printed) = 1
    /\ printed[1].file = N_A_xlsx
    /\ printed[1].sheet = T_Sheet1
    /\ printed[1].row = <<"2">>
    /\ printed[1].details = << <<"item", T_bolt>> >>

C10_Witness ==
  /\ ScenarioSearched
  /\ aggOutcome = "written"
  /\ results_df = ScenarioTable.data

====
